---- MODULE Spec2Model ----
(***************************************************************************)
(* Model of src/pages/app.py: one execution of the dashboard script.       *)
(* The script reads a CSV of yearly trade records, cleans it, and renders  *)
(* header metrics and three tabs of charts and tables.  Every block of the *)
(* script is one action; an exception that no handler of the script        *)
(* catches ends the run in pc = "uncaught".                                *)
(*                                                                         *)
(* Column names are written in ASCII:                                      *)
(*   period = the period column, country = the country column,             *)
(*   exp_amt / imp_amt = export / import amount,                           *)
(*   exp_cnt / imp_cnt = export / import count, balance = trade balance.   *)
(* The grand-total literal of the period column is written "TOTAL".        *)
(* Floating point results are modelled as exact rationals plus the three   *)
(* non-finite values a division by zero produces (inf, -inf, nan).         *)
(***************************************************************************)
EXTENDS Integers, Sequences, FiniteSets, TLC

\* ---------------------------------------------------------------- bounds
MaxRows == 3
MaxRowsLacking == 2
MaxWideRows == 6

\* ------------------------------------------------------- program constants
data_path == "trade2022-2024.csv"
Total == "TOTAL"
top_growth == 10
TopNMin == 5
TopNDefault == 10
TopNMax == 20
JoThreshold == 1000000
EokThreshold == 10000
EokWholeThreshold == 100

AllColumns == {"period", "country", "exp_amt", "imp_amt", "exp_cnt", "imp_cnt", "balance"}

\* ------------------------------------------------------------ input space
\* Period cells: two years, the grand-total literal, and a footer cell that is
\* not a number.
Periods == {"2023", "2024", Total, "n/a"}
Countries == {"Japan", "China"}
\* The second measure carries a balance cell that is not exp_amt - imp_amt.
Measures ==
  { [exp_amt |-> 100, imp_amt |-> 40, exp_cnt |-> 1, imp_cnt |-> 1, balance |-> 60],
    [exp_amt |-> 120, imp_amt |-> 40, exp_cnt |-> 2, imp_cnt |-> 1, balance |-> 0],
    [exp_amt |-> 0,   imp_amt |-> 0,  exp_cnt |-> 0, imp_cnt |-> 0, balance |-> 0] }

RawRows ==
  { [period |-> p, country |-> c, exp_amt |-> m.exp_amt, imp_amt |-> m.imp_amt,
     exp_cnt |-> m.exp_cnt, imp_cnt |-> m.imp_cnt, balance |-> m.balance]
      : p \in Periods, c \in Countries, m \in Measures }

\* Tables list their rows period by period (grand total first, footer last); no
\* step of the script depends on the order of rows of different periods.
PeriodKey(p) == CASE p = Total -> 0 [] p = "2023" -> 1 [] p = "2024" -> 2 [] p = "n/a" -> 3

PeriodOrdered(t) == \A i \in 1..(Len(t) - 1) : PeriodKey(t[i].period) <= PeriodKey(t[i + 1].period)

TablesUpTo(k) == UNION { { t \in [1..n -> RawRows] : PeriodOrdered(t) } : n \in 0..k }

Tables == TablesUpTo(MaxRows)

\* The column sets a file may carry: complete, or lacking one consumed column.
ColumnSets == {AllColumns} \cup { AllColumns \ {c} : c \in AllColumns }

Files ==
  { [exists |-> FALSE, columns |-> {}, rows |-> <<>>] } \cup
  { [exists |-> TRUE, columns |-> AllColumns, rows |-> t] : t \in Tables } \cup
  { [exists |-> TRUE, columns |-> cs, rows |-> t] :
      cs \in ColumnSets \ {AllColumns}, t \in TablesUpTo(MaxRowsLacking) }

\* A second family of files, with amounts (in thousand USD) on both sides of
\* the formatter's thresholds and more rows in a year than the smallest top-N:
\* one 2023 row and 1..MaxWideRows rows of 2024, one per country.
WideCountries == <<"Japan", "China", "USA", "Vietnam", "Russia", "Norway", "Thailand", "Peru">>

WideMeasures ==
  { [exp_amt |-> 2000000, imp_amt |-> 5000,    exp_cnt |-> 9, imp_cnt |-> 1, balance |-> 1995000],
    [exp_amt |-> 20000,   imp_amt |-> 3000000, exp_cnt |-> 2, imp_cnt |-> 9, balance |-> -2980000],
    [exp_amt |-> 500,     imp_amt |-> 30000,   exp_cnt |-> 1, imp_cnt |-> 3, balance |-> -29500] }

WideRow(p, c, m) ==
  [period |-> p, country |-> c, exp_amt |-> m.exp_amt, imp_amt |-> m.imp_amt,
   exp_cnt |-> m.exp_cnt, imp_cnt |-> m.imp_cnt, balance |-> m.balance]

WideTables ==
  UNION { { <<WideRow("2023", WideCountries[1], m0)>> \o
              [i \in 1..k |-> WideRow("2024", WideCountries[i], f[i])]
            : m0 \in WideMeasures, f \in [1..k -> WideMeasures] }
          : k \in 1..MaxWideRows }

WideFiles ==
  { [exists |-> FALSE, columns |-> {}, rows |-> <<>>] } \cup
  { [exists |-> TRUE, columns |-> AllColumns, rows |-> t] : t \in WideTables }

\* ------------------------------------------------------------- arithmetic
Abs(n) == IF n < 0 THEN -n ELSE n

Min(a, b) == IF a < b THEN a ELSE b

RECURSIVE GCD(_, _)
GCD(a, b) == IF b = 0 THEN a ELSE GCD(b, a % b)

\* num / den rounded to the nearest integer, ties to even (den > 0).
RoundHalfEven(num, den) ==
  LET q == num \div den
      r == num - den * q
  IN  IF 2 * r < den THEN q
      ELSE IF 2 * r > den THEN q + 1
      ELSE IF q % 2 = 0 THEN q ELSE q + 1

\* A float: a finite rational in lowest terms, or inf, -inf, nan.
Fin(num, den) ==
  LET g == GCD(Abs(num), Abs(den))
      s == IF den < 0 THEN -1 ELSE 1
  IN  [kind |-> "fin", num |-> s * (num \div g), den |-> s * (den \div g)]

NonFin(k) == [kind |-> k, num |-> 0, den |-> 1]

NaN == NonFin("nan")

\* The change taken relative to the later value: ((b - a) / b) * 100.
PctChangeOverLatest(a, b) ==
  IF b # 0 THEN Fin((b - a) * 100, b)
  ELSE IF b - a > 0 THEN NonFin("inf")
  ELSE IF b - a < 0 THEN NonFin("-inf")
  ELSE NonFin("nan")

\* ((b - a) / a) * 100 as numpy evaluates it: a zero divisor gives inf, -inf
\* or nan (with a warning), never an exception.
PctChange(a, b) ==
  IF a # 0 THEN Fin((b - a) * 100, a)
  ELSE IF b - a > 0 THEN NonFin("inf")
  ELSE IF b - a < 0 THEN NonFin("-inf")
  ELSE NaN

\* Order used by sort_values(ascending=True): -inf < finite < inf, nan last.
Rank(g) == CASE g.kind = "-inf" -> 0
             [] g.kind = "fin"  -> 1
             [] g.kind = "inf"  -> 2
             [] g.kind = "nan"  -> 3

FloatLess(g, h) ==
  IF g.kind = "fin" /\ h.kind = "fin"
    THEN g.num * h.den < h.num * g.den
    ELSE Rank(g) < Rank(h)

\* f"{x:+.1f}%"
FormatPct(g) ==
  CASE g.kind = "inf"  -> [sign |-> "+", body |-> "inf", tenths |-> 0]
    [] g.kind = "-inf" -> [sign |-> "-", body |-> "inf", tenths |-> 0]
    [] g.kind = "nan"  -> [sign |-> "+", body |-> "nan", tenths |-> 0]
    [] g.kind = "fin"  ->
         [sign |-> IF g.num < 0 THEN "-" ELSE "+", body |-> "num",
          tenths |-> RoundHalfEven(Abs(g.num) * 10, g.den)]

\* format_korean_currency: unit, number of decimals, value scaled by
\* 10^decimals and rounded.
format_korean_currency(v) ==
  IF v >= JoThreshold
    THEN [unit |-> "jo", decimals |-> 2, scaled |-> RoundHalfEven(v * 100, JoThreshold)]
  ELSE IF v >= EokThreshold
    THEN IF v >= EokWholeThreshold * EokThreshold
           THEN [unit |-> "eok", decimals |-> 0, scaled |-> RoundHalfEven(v, EokThreshold)]
           ELSE [unit |-> "eok", decimals |-> 1, scaled |-> RoundHalfEven(v * 10, EokThreshold)]
  ELSE [unit |-> "thousand", decimals |-> 0, scaled |-> v]

\* ------------------------------------------------------- table operators
\* pd.to_numeric(..., errors='coerce') on one cell of the period column.
ToNumeric(s) ==
  CASE s = "2023" -> [isna |-> FALSE, val |-> 2023]
    [] s = "2024" -> [isna |-> FALSE, val |-> 2024]
    [] OTHER      -> [isna |-> TRUE, val |-> 0]

MapSeq(s, F(_)) == [i \in 1..Len(s) |-> F(s[i])]

\* A cleaner that keeps every row and fills the cells that are no number with
\* 0: to_numeric(df[period], errors='coerce').fillna(0).astype(int)
CleanFillZero(rows) ==
  LET Filled(r) == [r EXCEPT !.period = IF ToNumeric(r.period).isna
                                          THEN 0 ELSE ToNumeric(r.period).val]
  IN  MapSeq(rows, Filled)

\* df[df[period] != Total], to_numeric(errors='coerce'), dropna, astype(int)
Clean(rows) ==
  LET NotTotal(r) == r.period # Total
      Coerced(r) == [r EXCEPT !.period = ToNumeric(r.period)]
      NotNa(r) == ~r.period.isna
      AsInt(r) == [r EXCEPT !.period = r.period.val]
  IN  MapSeq(SelectSeq(MapSeq(SelectSeq(rows, NotTotal), Coerced), NotNa), AsInt)

\* The elements of a set of integers in increasing order.
RECURSIVE Sorted(_)
Sorted(S) ==
  IF S = {} THEN <<>>
  ELSE LET m == CHOOSE x \in S : \A y \in S : x <= y
       IN  <<m>> \o Sorted(S \ {m})

PeriodSet(rows) == { rows[i].period : i \in 1..Len(rows) }

RECURSIVE SumCol(_, _)
SumCol(rows, col) ==
  IF rows = <<>> THEN 0 ELSE Head(rows)[col] + SumCol(Tail(rows), col)

RowsOfYear(rows, y) == LET InYear(r) == r.period = y IN SelectSeq(rows, InYear)

\* df_clean.groupby(period)[cols].sum(): one entry per distinct period.
GroupByPeriod(rows, cols) ==
  [y \in PeriodSet(rows) |-> [c \in cols |-> SumCol(RowsOfYear(rows, y), c)]]

\* ... .reset_index(): the groups as rows, in increasing period.
ResetIndex(g) ==
  LET ys == Sorted(DOMAIN g)
  IN  [i \in 1..Len(ys) |-> [period |-> ys[i], sums |-> g[ys[i]]]]

\* A stable sort: x goes before y when Before(x, y); ties keep their order.
StableSort(s, Before(_, _)) ==
  LET n == Len(s)
      rank(i) == Cardinality({ j \in 1..n :
                    Before(s[j], s[i]) \/ (~Before(s[i], s[j]) /\ j < i) }) + 1
  IN  [k \in 1..n |-> s[CHOOSE i \in 1..n : rank(i) = k]]

DfHead(s, n) == SubSeq(s, 1, Min(n, Len(s)))

DfTail(s, n) == SubSeq(s, Len(s) - Min(n, Len(s)) + 1, Len(s))

\* df_clean[df_clean[period] == select_year].sort_values(exp_amt, ascending=False)
CountryData(rows, y) ==
  LET ExpDesc(a, b) == a.exp_amt > b.exp_amt
  IN  StableSort(RowsOfYear(rows, y), ExpDesc)

\* country_data.head(top_n) with the two display columns
CountryTop(rows, y, n) ==
  LET Shown(r) == [country |-> r.country, exp_amt |-> r.exp_amt, imp_amt |-> r.imp_amt,
                   balance |-> r.balance, exp_cnt |-> r.exp_cnt, imp_cnt |-> r.imp_cnt,
                   exp_str |-> format_korean_currency(r.exp_amt),
                   imp_str |-> format_korean_currency(r.imp_amt)]
  IN  MapSeq(DfHead(CountryData(rows, y), n), Shown)

\* left.merge(right, on=country, suffixes=(_prev, _latest)): inner join, in
\* the order of the left rows, every matching pair of rows.
RECURSIVE Merge(_, _)
Merge(left, right) ==
  IF left = <<>> THEN <<>>
  ELSE LET l == Head(left)
           Match(r) == r.country = l.country
           Pair(r) == [country |-> l.country, exp_prev |-> l.exp_amt, exp_latest |-> r.exp_amt]
       IN  MapSeq(SelectSeq(right, Match), Pair) \o Merge(Tail(left), right)

\* country_growth_comp: merge, growth column, sort_values(growth, ascending=True)
CountryGrowthComp(rows, prev, latest) ==
  LET WithGrowth(r) ==
        [country |-> r.country, exp_prev |-> r.exp_prev, exp_latest |-> r.exp_latest,
         growth |-> PctChange(r.exp_prev, r.exp_latest)]
      GrowthAsc(a, b) == FloatLess(a.growth, b.growth)
  IN  StableSort(MapSeq(Merge(RowsOfYear(rows, prev), RowsOfYear(rows, latest)), WithGrowth),
                 GrowthAsc)

\* pd.concat([comp.head(top_growth), comp.tail(top_growth)]).sort_values(growth)
\* Each row keeps its index label (idx) of the comparison table.
GrowthDisplay(comp) ==
  LET Labelled == [i \in 1..Len(comp) |->
                     [idx |-> i, country |-> comp[i].country, growth |-> comp[i].growth,
                      text |-> FormatPct(comp[i].growth),
                      color |-> IF comp[i].growth.kind = "inf"
                                   \/ (comp[i].growth.kind = "fin" /\ comp[i].growth.num > 0)
                                THEN "#667eea" ELSE "#f5576c"]]
      GrowthAsc(a, b) == FloatLess(a.growth, b.growth)
  IN  StableSort(DfHead(Labelled, top_growth) \o DfTail(Labelled, top_growth), GrowthAsc)

\* ------------------------------------------------------------------ state
VARIABLES
  file,                \* the file at data_path: exists, columns, rows
  pc,                  \* the block of the script to run next
  exc,                 \* the exception that ended the try block, or "none"
  screen,              \* the elements rendered so far, in order
  loads,               \* number of pd.read_csv calls made
  df, df_clean, years, yearly, latest_year, prev_year,
  export_change_pct, import_change_pct, header,
  yearly_data, yearly_trade, yearly_detail,
  select_year, top_n, country_top, country_display, fig3, fig4,
  yearly_line, yearly_growth, growth_metrics,
  country_growth_comp, growth_display

inputs == <<file>>
control == <<pc, exc, screen, loads>>
cleaned == <<df, df_clean>>
headerVars == <<years, yearly, latest_year, prev_year, export_change_pct, import_change_pct, header>>
tab1Vars == <<yearly_data, yearly_trade, yearly_detail>>
tab2Vars == <<select_year, top_n, country_top, country_display, fig3, fig4>>
tab3Vars == <<yearly_line, yearly_growth, growth_metrics, country_growth_comp, growth_display>>
vars == <<inputs, control, cleaned, headerVars, tab1Vars, tab2Vars, tab3Vars>>

Unset == NonFin("unset")

TopNChoices == {TopNMin, TopNDefault, TopNMax}

\* State after line 44: only the page configuration and the style sheet
\* have been emitted.
Start ==
  /\ pc = "read_csv"
  /\ exc = "none"
  /\ screen = <<"css">>
  /\ loads = 0
  /\ df = <<>> /\ df_clean = <<>>
  /\ years = <<>> /\ yearly = <<>> /\ latest_year = 0 /\ prev_year = 0
  /\ export_change_pct = Unset /\ import_change_pct = Unset /\ header = <<>>
  /\ yearly_data = <<>> /\ yearly_trade = <<>> /\ yearly_detail = <<>>
  /\ select_year = 0 /\ top_n = 0 /\ country_top = <<>> /\ country_display = <<>>
  /\ fig3 = <<>> /\ fig4 = <<>>
  /\ yearly_line = <<>> /\ yearly_growth = <<>> /\ growth_metrics = <<>>
  /\ country_growth_comp = <<>> /\ growth_display = <<>>

Init == file \in Files /\ Start

\* An exception raised inside the try block: FileNotFoundError goes to the
\* except clause, anything else leaves the script uncaught.
Raise(e, shown) ==
  /\ exc' = e
  /\ pc' = IF e = "FileNotFoundError" THEN "except" ELSE "uncaught"
  /\ screen' = screen \o shown

\* line 47: df = pd.read_csv(data_path, encoding='utf-8')
ReadCsv ==
  /\ pc = "read_csv"
  /\ loads' = loads + 1
  /\ IF file.exists
       THEN /\ df' = file.rows
            /\ pc' = "clean"
            /\ UNCHANGED <<exc, screen>>
       ELSE /\ Raise("FileNotFoundError", <<>>)
            /\ UNCHANGED df
  /\ UNCHANGED <<inputs, df_clean, headerVars, tab1Vars, tab2Vars, tab3Vars>>

\* lines 50-53: df_clean
CleanData ==
  /\ pc = "clean"
  /\ IF "period" \in file.columns
       THEN /\ df_clean' = Clean(df)
            /\ pc' = "header"
            /\ UNCHANGED <<exc, screen>>
       ELSE /\ Raise("KeyError", <<>>)
            /\ UNCHANGED df_clean
  /\ UNCHANGED <<inputs, loads, df, headerVars, tab1Vars, tab2Vars, tab3Vars>>

YearlyColumns == {"exp_amt", "imp_amt", "exp_cnt", "imp_cnt"}

\* One header box (lines 94-99 and 103-108): the latest amount, the change
\* in percent and the change in amount, as formatted.
MetricBox(latest, pct, amount) ==
  [value |-> format_korean_currency(latest),
   change_pct |-> FormatPct(pct),
   change_amount |-> format_korean_currency(amount)]

\* lines 70-111: years, title, yearly, latest/previous year, header metrics
Header ==
  /\ pc = "header"
  /\ LET ys == Sorted(PeriodSet(df_clean))
         n == Len(ys)
         g == GroupByPeriod(df_clean, YearlyColumns)
         top == <<"title", "divider">>
     IN  /\ years' = ys
         /\ IF ~(YearlyColumns \subseteq file.columns)
              THEN /\ Raise("KeyError", top)                       \* line 76
                   /\ UNCHANGED <<yearly, latest_year, prev_year,
                                  export_change_pct, import_change_pct, header>>
            ELSE IF n = 0
              THEN /\ Raise("IndexError", top)                     \* line 77
                   /\ yearly' = g
                   /\ UNCHANGED <<latest_year, prev_year,
                                  export_change_pct, import_change_pct, header>>
            ELSE IF n < 2
              THEN /\ Raise("IndexError", top)                     \* line 78
                   /\ yearly' = g
                   /\ latest_year' = ys[n]
                   /\ UNCHANGED <<prev_year, export_change_pct, import_change_pct, header>>
            ELSE LET export_latest == g[ys[n]]["exp_amt"]
                     import_latest == g[ys[n]]["imp_amt"]
                     export_prev == g[ys[n - 1]]["exp_amt"]
                     import_prev == g[ys[n - 1]]["imp_amt"]
                     epct == PctChange(export_prev, export_latest)
                     ipct == PctChange(import_prev, import_latest)
                 IN  /\ yearly' = g
                     /\ latest_year' = ys[n]
                     /\ prev_year' = ys[n - 1]
                     /\ export_change_pct' = epct
                     /\ import_change_pct' = ipct
                     /\ header' = << MetricBox(export_latest, epct, export_latest - export_prev),
                                     MetricBox(import_latest, ipct, import_latest - import_prev) >>
                     /\ screen' = screen \o top \o <<"metric_export", "metric_import", "divider">>
                     /\ pc' = "tab1_charts"
                     /\ UNCHANGED exc
  /\ UNCHANGED <<inputs, loads, cleaned, tab1Vars, tab2Vars, tab3Vars>>

\* The bar colour of a balance: lambda x: '#667eea' if x > 0 else '#f5576c'
BarColor(x) == IF x > 0 THEN "#667eea" ELSE "#f5576c"

\* lines 123-125: yearly_data with the two display columns
YearlyData(rows) ==
  LET t == ResetIndex(GroupByPeriod(rows, {"exp_amt", "imp_amt"}))
      Row(r) == [period |-> r.period, exp_amt |-> r.sums["exp_amt"], imp_amt |-> r.sums["imp_amt"],
                 exp_str |-> format_korean_currency(r.sums["exp_amt"]),
                 imp_str |-> format_korean_currency(r.sums["imp_amt"])]
  IN  MapSeq(t, Row)

\* lines 199-205: yearly_trade_reset
YearlyTrade(rows) ==
  LET t == ResetIndex(GroupByPeriod(rows, {"exp_amt", "imp_amt"}))
      Row(r) == LET bal == r.sums["exp_amt"] - r.sums["imp_amt"]
                IN  [period |-> r.period, exp_amt |-> r.sums["exp_amt"],
                     imp_amt |-> r.sums["imp_amt"], balance |-> bal,
                     balance_str |-> format_korean_currency(bal), color |-> BarColor(bal)]
  IN  MapSeq(t, Row)

\* lines 114-252: the tabs, fig1 (yearly amounts) and fig2 (trade balance)
Tab1Charts ==
  /\ pc = "tab1_charts"
  /\ yearly_data' = YearlyData(df_clean)
  /\ yearly_trade' = YearlyTrade(df_clean)
  /\ screen' = screen \o <<"tabs", "subheader", "fig1", "fig2">>
  /\ pc' = "tab1_detail"
  /\ UNCHANGED <<inputs, exc, loads, cleaned, headerVars, yearly_detail, tab2Vars, tab3Vars>>

DetailColumns == {"exp_cnt", "exp_amt", "imp_cnt", "imp_amt", "balance"}

\* lines 256-259: yearly_detail
YearlyDetail(rows) ==
  LET t == ResetIndex(GroupByPeriod(rows, DetailColumns))
      Row(r) == [period |-> r.period, exp_cnt |-> r.sums["exp_cnt"],
                 exp_amt |-> format_korean_currency(r.sums["exp_amt"]),
                 imp_cnt |-> r.sums["imp_cnt"],
                 imp_amt |-> format_korean_currency(r.sums["imp_amt"]),
                 balance |-> format_korean_currency(r.sums["balance"])]
  IN  MapSeq(t, Row)

\* lines 255-264: the yearly detail table
Tab1Detail ==
  /\ pc = "tab1_detail"
  /\ IF DetailColumns \subseteq file.columns
       THEN /\ yearly_detail' = YearlyDetail(df_clean)
            /\ screen' = screen \o <<"subheader", "yearly_detail">>
            /\ pc' = "tab2"
            /\ UNCHANGED exc
       ELSE /\ Raise("KeyError", <<"subheader">>)                  \* line 256
            /\ UNCHANGED yearly_detail
  /\ UNCHANGED <<inputs, loads, cleaned, headerVars, yearly_data, yearly_trade, tab2Vars, tab3Vars>>

\* lines 286-303: the bars of fig3, one per row of country_top, in its order
Fig3Bars(top) ==
  LET Bar(r) == [country |-> r.country, amount |-> r.exp_amt, text |-> r.exp_str]
  IN  MapSeq(top, Bar)

\* lines 332-349: the bars of fig4, one per row of country_top, in its order
Fig4Bars(top) ==
  LET Bar(r) == [country |-> r.country, amount |-> r.imp_amt, text |-> r.imp_str]
  IN  MapSeq(top, Bar)

\* lines 378-381: country_display
CountryDisplay(top) ==
  LET Row(r) == [country |-> r.country,
                 exp_amt |-> format_korean_currency(r.exp_amt),
                 imp_amt |-> format_korean_currency(r.imp_amt),
                 balance |-> format_korean_currency(r.balance),
                 exp_cnt |-> r.exp_cnt, imp_cnt |-> r.imp_cnt]
  IN  MapSeq(top, Row)

\* lines 267-386: year and top-N widgets, fig3 (export), fig4 (import) and
\* the country table.  The widgets' values are the user's choice.
Tab2 ==
  /\ pc = "tab2"
  /\ \E y \in PeriodSet(df_clean), n \in TopNChoices :
       LET top == CountryTop(df_clean, y, n)
           widgets == <<"subheader", "selectbox", "slider">>
       IN  /\ select_year' = y
           /\ top_n' = n
           /\ country_top' = top
           /\ IF "country" \in file.columns
                THEN /\ fig3' = Fig3Bars(top)
                     /\ fig4' = Fig4Bars(top)
                     /\ country_display' = CountryDisplay(top)
                     /\ screen' = screen \o widgets \o
                                  <<"fig3", "fig4", "subheader", "country_display">>
                     /\ pc' = "tab3_yearly"
                     /\ UNCHANGED exc
                ELSE /\ Raise("KeyError", widgets)                 \* line 289
                     /\ UNCHANGED <<country_display, fig3, fig4>>
  /\ UNCHANGED <<inputs, loads, cleaned, headerVars, tab1Vars, tab3Vars>>

\* lines 392 and 457-459: the yearly sums and their pct_change() * 100; the
\* first row has no predecessor and gets nan.
YearlyLine(rows) ==
  LET t == ResetIndex(GroupByPeriod(rows, {"exp_amt", "imp_amt"}))
      Row(r) == [period |-> r.period, exp_amt |-> r.sums["exp_amt"], imp_amt |-> r.sums["imp_amt"]]
  IN  MapSeq(t, Row)

YearlyGrowth(rows) ==
  LET t == YearlyLine(rows)
  IN  [i \in 1..Len(t) |->
        [period |-> t[i].period, exp_amt |-> t[i].exp_amt, imp_amt |-> t[i].imp_amt,
         exp_pct |-> IF i = 1 THEN NaN ELSE PctChange(t[i - 1].exp_amt, t[i].exp_amt),
         imp_pct |-> IF i = 1 THEN NaN ELSE PctChange(t[i - 1].imp_amt, t[i].imp_amt)]]

\* lines 463-487: one st.metric per year for the first three years
GrowthMetrics(ys, growth) ==
  [i \in 1..Min(Len(ys), 3) |->
     LET g == CHOOSE r \in { growth[k] : k \in 1..Len(growth) } : r.period = ys[i]
     IN  IF i = 1
           THEN [period |-> ys[i], base |-> TRUE,
                 exp_text |-> FormatPct(NaN), imp_text |-> FormatPct(NaN)]
           ELSE [period |-> ys[i], base |-> FALSE,
                 exp_text |-> FormatPct(g.exp_pct), imp_text |-> FormatPct(g.imp_pct)]]

\* lines 389-487: fig5 (trend) and the yearly growth metrics
Tab3Yearly ==
  /\ pc = "tab3_yearly"
  /\ yearly_line' = YearlyLine(df_clean)
  /\ yearly_growth' = YearlyGrowth(df_clean)
  /\ growth_metrics' = GrowthMetrics(years, YearlyGrowth(df_clean))
  /\ screen' = screen \o <<"subheader", "fig5", "subheader", "growth_metrics">>
  /\ pc' = "tab3_country"
  /\ UNCHANGED <<inputs, exc, loads, cleaned, headerVars, tab1Vars, tab2Vars,
                 country_growth_comp, growth_display>>

\* lines 490-551: country growth between prev_year and latest_year, fig6
Tab3Country ==
  /\ pc = "tab3_country"
  /\ country_growth_comp' = CountryGrowthComp(df_clean, prev_year, latest_year)
  /\ growth_display' = GrowthDisplay(CountryGrowthComp(df_clean, prev_year, latest_year))
  /\ screen' = screen \o <<"subheader", "fig6">>
  /\ pc' = "done"
  /\ UNCHANGED <<inputs, exc, loads, cleaned, headerVars, tab1Vars, tab2Vars,
                 yearly_line, yearly_growth, growth_metrics>>

\* An except clause that shows its messages and lets the script go on.
ExceptThenContinue ==
  /\ pc = "except"
  /\ screen' = screen \o <<"st_error", "st_info">>
  /\ pc' = "header"
  /\ UNCHANGED <<inputs, exc, loads, cleaned, headerVars, tab1Vars, tab2Vars, tab3Vars>>

\* lines 553-555: except FileNotFoundError
ExceptFileNotFound ==
  /\ pc = "except"
  /\ screen' = screen \o <<"st_error", "st_info">>
  /\ pc' = "handled"
  /\ UNCHANGED <<inputs, exc, loads, cleaned, headerVars, tab1Vars, tab2Vars, tab3Vars>>

Next ==
  \/ ReadCsv
  \/ CleanData
  \/ Header
  \/ Tab1Charts
  \/ Tab1Detail
  \/ Tab2
  \/ Tab3Yearly
  \/ Tab3Country
  \/ ExceptFileNotFound

Spec == Init /\ [][Next]_vars

\* The same script over the second family of files.
InitWide == file \in WideFiles /\ Start

SpecWide == InitWide /\ [][Next]_vars

TypeOK ==
  /\ pc \in {"read_csv", "clean", "header", "tab1_charts", "tab1_detail", "tab2",
             "tab3_yearly", "tab3_country", "done", "except", "handled", "uncaught"}
  /\ exc \in {"none", "FileNotFoundError", "KeyError", "IndexError"}
  /\ loads \in 0..1

\* ----------------------------------------------------------- properties
Ended == pc \in {"done", "handled", "uncaught"}

Count(seq, x) == Cardinality({ i \in 1..Len(seq) : seq[i] = x })

\* What the run has put on the page besides the style sheet and the two
\* messages of the except clause.
AnalysisShown == { screen[i] : i \in 1..Len(screen) } \ {"css", "st_error", "st_info"}

NonFinite(g) == g.kind \in {"inf", "-inf", "nan"}

RemoveTotal(rows) == LET NotTotal(r) == r.period # Total IN SelectSeq(rows, NotTotal)

HasTotal(rows) == \E i \in 1..Len(rows) : rows[i].period = Total

CountriesOf(rows) == { rows[i].country : i \in 1..Len(rows) }

\* C1: a growth computed from a zero baseline is an explicit 'undefined'
\* value; no inf or nan is produced by a growth computation (header change,
\* yearly change series from the second year on, per-country growth) and none
\* reaches a formatted percentage string.
C1_ZeroBaselineIsUndefined ==
  /\ ~NonFinite(export_change_pct) /\ ~NonFinite(import_change_pct)
  /\ \A i \in 1..Len(header) : header[i].change_pct.body = "num"
  /\ \A i \in 2..Len(yearly_growth) :
       ~NonFinite(yearly_growth[i].exp_pct) /\ ~NonFinite(yearly_growth[i].imp_pct)
  /\ \A i \in 2..Len(growth_metrics) :
       growth_metrics[i].exp_text.body = "num" /\ growth_metrics[i].imp_text.body = "num"
  /\ \A i \in 1..Len(country_growth_comp) :
       /\ ~NonFinite(country_growth_comp[i].growth)
       /\ country_growth_comp[i].exp_prev = 0 => country_growth_comp[i].growth.kind = "undefined"
  /\ \A i \in 1..Len(growth_display) : growth_display[i].text.body = "num"

\* C2: a run over a cleaned table with fewer than two distinct years that
\* gets to the latest-vs-previous-year comparison ends recoverably, with an
\* informational message on the page, and never with an uncaught exception.
C2_InsufficientHistoryRecovers ==
  ( /\ Ended
    /\ file.exists
    /\ {"period"} \cup YearlyColumns \subseteq file.columns
    /\ Cardinality(PeriodSet(Clean(file.rows))) < 2 )
  => (pc # "uncaught" /\ Count(screen, "st_info") >= 1)

\* C3: the cleaned table holds no grand-total row, and every derived result
\* (years, yearly sums, latest/previous year and their change, the
\* per-country rows of the selected year, the country growth) equals the one
\* computed from the input with its grand-total rows removed.
C3_TotalRowExcluded ==
  LET base == Clean(RemoveTotal(file.rows))
      g == GroupByPeriod(base, YearlyColumns)
  IN  /\ (pc \notin {"read_csv", "clean", "except", "handled"} /\ "period" \in file.columns)
           => /\ df_clean = base
              /\ Len(df_clean) <= Len(RemoveTotal(file.rows))
      /\ (pc \notin {"read_csv", "clean", "header", "except", "handled"} /\ "period" \in file.columns)
           => years = Sorted(PeriodSet(base))
      /\ DOMAIN yearly # {} => yearly = g
      /\ Len(header) > 0 =>
           /\ latest_year = Sorted(PeriodSet(base))[Len(Sorted(PeriodSet(base)))]
           /\ prev_year = Sorted(PeriodSet(base))[Len(Sorted(PeriodSet(base))) - 1]
           /\ export_change_pct = PctChange(g[prev_year]["exp_amt"], g[latest_year]["exp_amt"])
           /\ import_change_pct = PctChange(g[prev_year]["imp_amt"], g[latest_year]["imp_amt"])
      /\ pc \in {"tab2", "tab3_yearly", "tab3_country", "done"} =>
           /\ yearly_trade = YearlyTrade(base)
           /\ yearly_detail = YearlyDetail(base)
      /\ pc \in {"tab3_yearly", "tab3_country", "done"} =>
           country_top = CountryTop(base, select_year, top_n)
      /\ pc = "done" =>
           /\ yearly_growth = YearlyGrowth(base)
           /\ country_growth_comp = CountryGrowthComp(base, prev_year, latest_year)

\* C3 witness: a finished run over a table that holds a grand-total row and
\* rows of both years.
C3_Witness ==
  /\ pc = "done"
  /\ HasTotal(file.rows)
  /\ Len(df_clean) >= 2
  /\ Len(df_clean) < Len(file.rows)

\* C4: after the top-N selection for the chosen year, the rows returned
\* number min(N, number of country groups of the year), are in descending
\* order of export amount, leave out no row with a larger export amount than
\* a returned one, and the countries returned for N are among those
\* returned for N + 1.
C4_TopNSelection ==
  pc \in {"tab3_yearly", "tab3_country", "done"} =>
    LET rows == RowsOfYear(df_clean, select_year)
        n == Len(country_top)
    IN  /\ n = Min(top_n, Cardinality(CountriesOf(rows)))
        /\ \A i \in 1..(n - 1) : country_top[i].exp_amt >= country_top[i + 1].exp_amt
        /\ \A i \in 1..Len(rows) :
             (n > 0 /\ rows[i].exp_amt > country_top[n].exp_amt)
               => rows[i].country \in CountriesOf(country_top)
        /\ CountriesOf(country_top) \subseteq
             CountriesOf(CountryTop(df_clean, select_year, top_n + 1))

\* C5: in the rollups keyed by country, the rows of one (period, country)
\* key make exactly one output row that carries their sum: the top-N rows of
\* the selected year (all groups fit when N is at least their number) and
\* both sides of the country growth comparison.
C5_OneRowPerKey ==
  /\ pc \in {"tab3_yearly", "tab3_country", "done"} =>
       LET rows == RowsOfYear(df_clean, select_year)
       IN  \A c \in CountriesOf(rows) :
             LET OfC(r) == r.country = c
                 shown == SelectSeq(country_top, OfC)
             IN  /\ Len(shown) <= 1
                 /\ Cardinality(CountriesOf(rows)) <= top_n => Len(shown) = 1
                 /\ Len(shown) = 1 =>
                      /\ shown[1].exp_amt = SumCol(SelectSeq(rows, OfC), "exp_amt")
                      /\ shown[1].imp_amt = SumCol(SelectSeq(rows, OfC), "imp_amt")
  /\ pc = "done" =>
       \A c \in CountriesOf(country_growth_comp) :
         LET OfC(r) == r.country = c
             out == SelectSeq(country_growth_comp, OfC)
         IN  /\ Len(out) = 1
             /\ out[1].exp_prev = SumCol(SelectSeq(RowsOfYear(df_clean, prev_year), OfC), "exp_amt")
             /\ out[1].exp_latest = SumCol(SelectSeq(RowsOfYear(df_clean, latest_year), OfC), "exp_amt")

\* C6: a run over a file that lacks a consumed column ends with the
\* missing-column error, which is not the file-missing report, and has
\* rendered no analysis output.
C6_SchemaMismatchAborts ==
  (Ended /\ file.exists /\ file.columns # AllColumns) =>
    /\ pc # "done"
    /\ exc = "KeyError"
    /\ Count(screen, "st_error") = 0
    /\ AnalysisShown = {}

\* C7: when the file is missing the load is tried once, the file-not-found
\* message is shown exactly once (at the end of the run, not before), and no
\* analysis output is on the page at any point of the run.
C7_FileMissingBlocks ==
  ~file.exists =>
    /\ loads <= 1
    /\ pc \in {"read_csv", "except", "handled"}
    /\ Count(screen, "st_error") = (IF pc = "handled" THEN 1 ELSE 0)
    /\ Count(screen, "st_info") = (IF pc = "handled" THEN 1 ELSE 0)
    /\ AnalysisShown = {}
    /\ pc = "handled" => (loads = 1 /\ exc = "FileNotFoundError")

\* C7 witness: the run over a missing file has ended with the message shown.
C7_Witness ==
  /\ ~file.exists
  /\ pc = "handled"
  /\ Count(screen, "st_error") = 1

C9_BalanceFromRollup ==
  /\ \A i \in 1..Len(yearly_trade) :
       yearly_trade[i].balance =
         yearly[yearly_trade[i].period]["exp_amt"] - yearly[yearly_trade[i].period]["imp_amt"]
  /\ \A i \in 1..Len(yearly_detail) :
       yearly_detail[i].balance =
         format_korean_currency(yearly[yearly_detail[i].period]["exp_amt"]
                                - yearly[yearly_detail[i].period]["imp_amt"])

\* C10: the top/bottom-K growth display holds each row of the comparison
\* set at most once and is in ascending order of growth.
C10_DisplayRowsOnce ==
  pc = "done" =>
    /\ \A i, j \in 1..Len(growth_display) :
         growth_display[i].idx = growth_display[j].idx => i = j
    /\ \A i \in 1..(Len(growth_display) - 1) :
         ~FloatLess(growth_display[i + 1].growth, growth_display[i].growth)

\* C11: the bars of the import chart (fig4) are the N rows of the selected
\* year with the largest import amounts, in descending order of import
\* amount, as the bars of the export chart (fig3) are for export amounts.
C11_ImportChartTopN ==
  pc \in {"tab3_yearly", "tab3_country", "done"} =>
    LET rows == RowsOfYear(df_clean, select_year)
        n == Min(top_n, Len(rows))
        Shown(fig) == { fig[i].country : i \in 1..Len(fig) }
    IN  /\ Len(fig3) = n /\ Len(fig4) = n
        /\ \A i \in 1..(n - 1) : fig3[i].amount >= fig3[i + 1].amount
        /\ \A i \in 1..Len(rows) :
             (n > 0 /\ rows[i].exp_amt > fig3[n].amount) => rows[i].country \in Shown(fig3)
        /\ \A i \in 1..(n - 1) : fig4[i].amount >= fig4[i + 1].amount
        /\ \A i \in 1..Len(rows) :
             (n > 0 /\ rows[i].imp_amt > fig4[n].amount) => rows[i].country \in Shown(fig4)

\* The unit the magnitude a >= 0 calls for.
UnitOfMagnitude(a) ==
  IF a >= JoThreshold THEN "jo" ELSE IF a >= EokThreshold THEN "eok" ELSE "thousand"

\* C12: the unit of every formatted trade balance and year-over-year change
\* amount is the one its absolute value calls for, and is the unit the
\* formatter gives the negated value.
C12_UnitFromAbsoluteValue ==
  /\ \A i \in 1..Len(yearly_trade) :
       /\ yearly_trade[i].balance_str.unit = UnitOfMagnitude(Abs(yearly_trade[i].balance))
       /\ yearly_trade[i].balance_str.unit = format_korean_currency(-yearly_trade[i].balance).unit
  /\ Len(header) = 2 =>
       LET export_change_amount == yearly[latest_year]["exp_amt"] - yearly[prev_year]["exp_amt"]
           import_change_amount == yearly[latest_year]["imp_amt"] - yearly[prev_year]["imp_amt"]
       IN  /\ header[1].change_amount.unit = UnitOfMagnitude(Abs(export_change_amount))
           /\ header[1].change_amount.unit = format_korean_currency(-export_change_amount).unit
           /\ header[2].change_amount.unit = UnitOfMagnitude(Abs(import_change_amount))
           /\ header[2].change_amount.unit = format_korean_currency(-import_change_amount).unit

====
